---- MODULE Spec2Model ----
(***************************************************************************)
(* Session authentication service of web_test (backend/src/index.ts):      *)
(* cookie codec, token service, and the login / me / logout handlers.      *)
(*                                                                         *)
(* Strings are sequences of symbols.  A symbol is a record: [ch |-> c] is  *)
(* a run of characters c (one character, or a word of unreserved           *)
(* characters such as auth_token), [jwt |-> t] is the compact encoding of  *)
(* the token t (base64url text and dots: unreserved characters only).      *)
(* An optional value (a header, a body field) is a set: {} or {v}.         *)
(***************************************************************************)
EXTENDS Integers, Sequences, FiniteSets, TLC

(***************************************************************************)
(* Bounds of the model.                                                    *)
(***************************************************************************)
\* clock resolution: ticks per second (Date.now() is finer than a second)
TicksPerSec == 2
\* the clock is observed within Window seconds of 0 and of one day
Window == 1
\* login requests in flight at once
MaxInflight == 1
\* login requests in flight at once, where requests run concurrently
MaxConcurrent == 2
\* longest cookie name and longest cookie value given to buildCookie
MaxNameLen == 2
MaxValueLen == 2
\* most parts of a Cookie header given to parseCookies, and the longest part
MaxParts == 2
MaxPartLen == 3

(***************************************************************************)
(* Strings                                                                 *)
(***************************************************************************)
Ch(c) == [ch |-> c]

Str(c) == <<Ch(c)>>

IsJwtSym(sym) == "jwt" \in DOMAIN sym

IsChar(sym, c) == "ch" \in DOMAIN sym /\ "code" \notin DOMAIN sym /\ sym.ch = c

\* String.prototype.split(sep) for a one-character separator
RECURSIVE Split(_, _)
Split(s, sep) ==
  LET hits == {i \in 1..Len(s) : IsChar(s[i], sep)}
  IN  IF hits = {} THEN <<s>>
      ELSE LET i == CHOOSE k \in hits : \A j \in hits : k <= j
           IN  <<SubSeq(s, 1, i - 1)>> \o Split(SubSeq(s, i + 1, Len(s)), sep)

\* Array.prototype.join(sep)
RECURSIVE Join(_, _)
Join(parts, sep) ==
  IF Len(parts) = 0 THEN <<>>
  ELSE IF Len(parts) = 1 THEN parts[1]
  ELSE parts[1] \o sep \o Join(Tail(parts), sep)

\* String.prototype.trim()
RECURSIVE Trim(_)
Trim(s) ==
  IF Len(s) = 0 THEN s
  ELSE IF IsChar(s[1], " ") THEN Trim(Tail(s))
  ELSE IF IsChar(s[Len(s)], " ") THEN Trim(SubSeq(s, 1, Len(s) - 1))
  ELSE s

HexDigits == {"0", "2", "3", "5", "9", "A", "B", "C", "D"}

HexVal(c) ==
  CASE c = "0" -> 0 [] c = "2" -> 2 [] c = "3" -> 3 [] c = "5" -> 5
    [] c = "9" -> 9 [] c = "A" -> 10 [] c = "B" -> 11 [] c = "C" -> 12
    [] c = "D" -> 13

IsHex(sym) == "ch" \in DOMAIN sym /\ "code" \notin DOMAIN sym /\ sym.ch \in HexDigits

\* the character of a code point
CharOf(code) ==
  CASE code = 32 -> Ch(" ") [] code = 37 -> Ch("%") [] code = 59 -> Ch(";")
    [] code = 61 -> Ch("=") [] code = 48 -> Ch("0") [] code = 50 -> Ch("2")
    [] code = 51 -> Ch("3") [] code = 53 -> Ch("5") [] code = 57 -> Ch("9")
    [] code = 233 -> Ch("U+00E9")
    [] OTHER -> [ch |-> "u", code |-> code]

\* encodeURIComponent: unreserved characters stay, every other character
\* becomes the %XX escapes of its UTF-8 bytes
EncodeSym(sym) ==
  IF IsJwtSym(sym) THEN <<sym>>
  ELSE IF IsChar(sym, ";") THEN <<Ch("%"), Ch("3"), Ch("B")>>
  ELSE IF IsChar(sym, "=") THEN <<Ch("%"), Ch("3"), Ch("D")>>
  ELSE IF IsChar(sym, " ") THEN <<Ch("%"), Ch("2"), Ch("0")>>
  ELSE IF IsChar(sym, "%") THEN <<Ch("%"), Ch("2"), Ch("5")>>
  ELSE IF IsChar(sym, "U+00E9") THEN <<Ch("%"), Ch("C"), Ch("3"), Ch("%"), Ch("A"), Ch("9")>>
  ELSE <<sym>>

RECURSIVE encodeURIComponent(_)
encodeURIComponent(s) ==
  IF Len(s) = 0 THEN <<>> ELSE EncodeSym(s[1]) \o encodeURIComponent(Tail(s))

\* the byte of the escape at the head of s, or {} when s does not start
\* with % and two hex digits
EscapeAt(s) ==
  IF Len(s) >= 3 /\ IsChar(s[1], "%") /\ IsHex(s[2]) /\ IsHex(s[3])
  THEN {16 * HexVal(s[2].ch) + HexVal(s[3].ch)}
  ELSE {}

\* decodeURIComponent: [ok |-> TRUE, val |-> decoded] or a thrown URIError
RECURSIVE decodeURIComponent(_)
decodeURIComponent(s) ==
  IF Len(s) = 0 THEN [ok |-> TRUE, val |-> <<>>]
  ELSE IF ~IsChar(s[1], "%")
  THEN LET rest == decodeURIComponent(Tail(s))
       IN  IF rest.ok THEN [ok |-> TRUE, val |-> <<s[1]>> \o rest.val] ELSE rest
  ELSE IF EscapeAt(s) = {} THEN [ok |-> FALSE, val |-> <<>>]
  ELSE LET b1 == CHOOSE b \in EscapeAt(s) : TRUE
           s2 == SubSeq(s, 4, Len(s))
       IN  IF b1 < 128
           THEN LET rest == decodeURIComponent(s2)
                IN  IF rest.ok THEN [ok |-> TRUE, val |-> <<CharOf(b1)>> \o rest.val]
                    ELSE rest
           ELSE IF b1 >= 194 /\ b1 <= 223 /\ EscapeAt(s2) # {}
           THEN LET b2 == CHOOSE b \in EscapeAt(s2) : TRUE
                    rest == decodeURIComponent(SubSeq(s2, 4, Len(s2)))
                IN  IF b2 < 128 \/ b2 > 191 THEN [ok |-> FALSE, val |-> <<>>]
                    ELSE IF rest.ok
                    THEN [ok |-> TRUE,
                          val |-> <<CharOf((b1 - 192) * 64 + (b2 - 128))>> \o rest.val]
                    ELSE rest
           ELSE [ok |-> FALSE, val |-> <<>>]

(***************************************************************************)
(* Cookie codec                                                            *)
(***************************************************************************)
AUTH_COOKIE == Str("auth_token")

\* encodeURIComponent throws URIError on a lone surrogate
EncodeThrows(s) == \E i \in 1..Len(s) : IsChar(s[i], "U+D800")

\* buildCookie joining the value as it is
buildCookie_Raw(name, value, options) ==
  Join(<<name \o Str("=") \o value>> \o options, <<Ch(";"), Ch(" ")>>)

buildCookie(name, value, options) ==
  Join(<<name \o Str("=") \o encodeURIComponent(value)>> \o options, <<Ch(";"), Ch(" ")>>)

\* ParsePart keeping the first value of a name
ParsePart_FirstWins(acc, part) ==
  LET kv == Split(Trim(part), "=")
      rawKey == kv[1]
      rawValue == Join(Tail(kv), Str("="))
      dec == decodeURIComponent(rawValue)
  IN  IF ~acc.ok THEN acc
      ELSE IF Len(rawKey) = 0 THEN acc
      ELSE IF ~dec.ok THEN [ok |-> FALSE, val |-> <<>>]
      ELSE IF rawKey = Str("__proto__") THEN acc
      ELSE [ok |-> TRUE, val |-> acc.val @@ (rawKey :> dec.val)]

\* one iteration of the loop of parseCookies on the part `part`, with
\* `acc` the result so far; assigning a string to result["__proto__"] leaves
\* the object as it is
ParsePart(acc, part) ==
  LET kv == Split(Trim(part), "=")
      rawKey == kv[1]
      rawValue == Join(Tail(kv), Str("="))
      dec == decodeURIComponent(rawValue)
  IN  IF ~acc.ok THEN acc
      ELSE IF Len(rawKey) = 0 THEN acc
      ELSE IF ~dec.ok THEN [ok |-> FALSE, val |-> <<>>]
      ELSE IF rawKey = Str("__proto__") THEN acc
      ELSE [ok |-> TRUE, val |-> (rawKey :> dec.val) @@ acc.val]

RECURSIVE ParseParts(_, _)
ParseParts(acc, parts) ==
  IF Len(parts) = 0 THEN acc
  ELSE ParseParts(ParsePart(acc, parts[1]), Tail(parts))

\* parseCookies: [ok |-> TRUE, val |-> name -> value] or a thrown URIError
parseCookies(cookieHeader) ==
  IF cookieHeader = {} \/ cookieHeader = {<<>>} THEN [ok |-> TRUE, val |-> <<>>]
  ELSE LET h == CHOOSE s \in cookieHeader : TRUE
       IN  ParseParts([ok |-> TRUE, val |-> <<>>], Split(h, ";"))

(***************************************************************************)
(* Process configuration and constants                                     *)
(***************************************************************************)
JWT_SECRET == "server-secret"

\* JWT_EXPIRES_IN = "1d", in seconds
JWT_EXPIRES_IN == 86400

ISSUER == "web_test"

AUDIENCE == "web_test_frontend"

(***************************************************************************)
(* Token service (jsonwebtoken, HS256)                                     *)
(* A token is its claims and a signature; the signature is the key it was  *)
(* made with and the claims it was made over.                              *)
(***************************************************************************)
\* Math.floor(Date.now() / 1000) at clock reading t (in ticks)
ClockTimestamp(t) == t \div TicksPerSec

MkToken(claims, key, over) == [claims |-> claims, sig |-> [key |-> key, over |-> over]]

signToken(payload, t) ==
  LET claims == [sub |-> payload.sub, username |-> payload.username,
                 name |-> payload.name,
                 iat |-> ClockTimestamp(t),
                 exp |-> ClockTimestamp(t) + JWT_EXPIRES_IN,
                 iss |-> ISSUER, aud |-> AUDIENCE]
  IN  <<[jwt |-> MkToken(claims, JWT_SECRET, claims)]>>

Thrown(e) == [ok |-> FALSE, err |-> e]

\* verifyToken without the audience option
verifyToken_SkipAudience(token, t) ==
  IF Len(token) # 1 \/ ~IsJwtSym(token[1]) THEN Thrown("jwt malformed")
  ELSE LET tk == token[1].jwt
       IN  IF tk.sig.key # JWT_SECRET \/ tk.sig.over # tk.claims
           THEN Thrown("invalid signature")
           ELSE IF ClockTimestamp(t) >= tk.claims.exp THEN Thrown("jwt expired")
           ELSE IF tk.claims.iss # ISSUER THEN Thrown("jwt issuer invalid")
           ELSE [ok |-> TRUE, payload |-> tk.claims]

\* verifyToken accepting a token in the second it expires
verifyToken_LateExpiry(token, t) ==
  IF Len(token) # 1 \/ ~IsJwtSym(token[1]) THEN Thrown("jwt malformed")
  ELSE LET tk == token[1].jwt
       IN  IF tk.sig.key # JWT_SECRET \/ tk.sig.over # tk.claims
           THEN Thrown("invalid signature")
           ELSE IF ClockTimestamp(t) > tk.claims.exp THEN Thrown("jwt expired")
           ELSE IF tk.claims.aud # AUDIENCE THEN Thrown("jwt audience invalid")
           ELSE IF tk.claims.iss # ISSUER THEN Thrown("jwt issuer invalid")
           ELSE [ok |-> TRUE, payload |-> tk.claims]

\* jwt.verify: the payload, or a thrown error
verifyToken(token, t) ==
  IF Len(token) # 1 \/ ~IsJwtSym(token[1]) THEN Thrown("jwt malformed")
  ELSE LET tk == token[1].jwt
       IN  IF tk.sig.key # JWT_SECRET \/ tk.sig.over # tk.claims
           THEN Thrown("invalid signature")
           ELSE IF ClockTimestamp(t) >= tk.claims.exp THEN Thrown("jwt expired")
           ELSE IF tk.claims.aud # AUDIENCE THEN Thrown("jwt audience invalid")
           ELSE IF tk.claims.iss # ISSUER THEN Thrown("jwt issuer invalid")
           ELSE [ok |-> TRUE, payload |-> tk.claims]

(***************************************************************************)
(* Cookie attributes                                                       *)
(***************************************************************************)
Attr(k, v) == <<Ch(k), Ch("="), Ch(v)>>

\* cookieOptions pushing Secure in every environment
cookieOptions_SecureAlways(env) ==
  <<Str("HttpOnly"), Attr("Path", "/"), Attr("SameSite", "Lax"), Attr("Max-Age", "86400")>>
  \o <<Str("Secure")>>

cookieOptions(env) ==
  <<Str("HttpOnly"), Attr("Path", "/"), Attr("SameSite", "Lax"), Attr("Max-Age", "86400")>>
  \o (IF env = "production" THEN <<Str("Secure")>> ELSE <<>>)

\* clearCookieOptions with the Max-Age of an active session
clearCookieOptions_Active(env) ==
  <<Str("HttpOnly"), Attr("Path", "/"), Attr("SameSite", "Lax"), Attr("Max-Age", "86400")>>
  \o (IF env = "production" THEN <<Str("Secure")>> ELSE <<>>)

clearCookieOptions(env) ==
  <<Str("HttpOnly"), Attr("Path", "/"), Attr("SameSite", "Lax"), Attr("Max-Age", "0")>>
  \o (IF env = "production" THEN <<Str("Secure")>> ELSE <<>>)

(***************************************************************************)
(* Credential store and password hashing                                   *)
(***************************************************************************)
\* argon2.hash(password): the encoded hash
Hash(password) == [alg |-> "argon2id", of |-> password]

\* argon2.verify(hash, password)
argon2Verify(hash, password) == hash.alg = "argon2id" /\ hash.of = password

Num(n) == [num |-> n]

Text(s) == [str |-> s]

\* String(v) of a row's id: a number becomes its decimal text
String(v) ==
  IF "num" \in DOMAIN v
  THEN Text(CASE v.num = 1 -> "1" [] v.num = 2 -> "2" [] OTHER -> "n")
  ELSE v

\* the users table: id is a number (integer column) or text (bigint, uuid)
UsersTable ==
  { [id |-> Num(1), username |-> "alice", password_hash |-> Hash("correct-pw"), name |-> {}],
    [id |-> Text("b7"), username |-> "bob", password_hash |-> Hash("pw2"), name |-> {"Bob"}] }

\* SELECT ... FROM users WHERE username = $1 LIMIT 1: result.rows[0]
Query(table, username) == {r \in table : r.username = username}

(***************************************************************************)
(* State                                                                   *)
(***************************************************************************)
\* users: the users table of the credential store
\* NODE_ENV: process.env.NODE_ENV
\* now: Date.now(), in ticks
\* inflight: the login requests suspended at an await
\* resp: the response a handler has completed, on its way to the client
\* jar: the cookie held by the browser, and the response that set it
\* lastLogout: the logout response before the one in resp
\* cap: the number of login requests the run admits in flight
\* kept: a copy the client kept of a cookie a login set
\* page: the state of the client page
VARIABLES users, NODE_ENV, now, inflight, resp, jar, lastLogout, cap, kept, page

vars == <<users, NODE_ENV, now, inflight, resp, jar, lastLogout, cap, kept, page>>

Day == JWT_EXPIRES_IN * TicksPerSec

ClockPoints ==
  (0..(Window * TicksPerSec)) \cup ((Day - Window * TicksPerSec)..(Day + Window * TicksPerSec))

Usernames == {"alice", "bob", "carol"}

Passwords == {"correct-pw", "pw2"}

\* request bodies of POST /api/login: each field absent, empty or given
LoginBodies ==
  [username : {{}, {""}} \cup {{u} : u \in Usernames},
   password : {{}, {""}} \cup {{p} : p \in Passwords}]

NoJar == [cookie |-> {}, src |-> "none"]

NoResponse == [kind |-> "none"]

\* the event loop runs one handler step at a time, and its response is out
\* before the next step runs
Ready == resp = NoResponse

\* an error message: a text, or a text with a status in brackets after it
Message(text) == [text |-> text, status |-> {}]

StatusMessage(text, status) == [text |-> text, status |-> {status}]

NoMessage == Message("")

\* the page before it is mounted (lines 199-210). pc is the await the running
\* function stands at and op the operation that runs. The last five fields
\* are history: the status of the last /api/login and /api/me responses, the
\* body read last, whether a logout succeeded since the last /api/me response,
\* and whether an OK /api/me response with a JSON body came and no 401 of
\* /api/me nor OK of /api/logout came since
PageInit ==
  [username |-> "", password |-> "", loading |-> FALSE, checkingSession |-> TRUE,
   isAuthenticated |-> FALSE, me |-> {}, statusCode |-> {}, error |-> NoMessage,
   success |-> "", pc |-> "unmounted", op |-> "none",
   loginStatus |-> {}, lastMe |-> {}, body |-> {}, logoutSince |-> FALSE, basis |-> FALSE]

Init ==
  /\ cap = MaxInflight
  /\ kept = NoJar
  /\ page = PageInit
  /\ users = UsersTable
  /\ NODE_ENV \in {"development", "production"}
  /\ now = 0
  /\ inflight = {}
  /\ resp = NoResponse
  /\ jar = NoJar
  /\ lastLogout = {}

(***************************************************************************)
(* POST /api/login                                                         *)
(***************************************************************************)
Falsy(field) == field = {} \/ field = {""}

Value(field) == CHOOSE v \in field : TRUE

LoginResponse(body, status, out, cookie, ops) ==
  [kind |-> "login", req |-> body, status |-> status, body |-> out,
   setCookie |-> cookie, ops |-> ops]

\* the browser keeps name=value of a Set-Cookie header
CookiePair(setCookie) == Split(setCookie, ";")[1]

\* LoginValidate requiring the username only
LoginValidate_UsernameOnly(body) ==
  IF Falsy(body.username)
  THEN /\ resp' = LoginResponse(body, 400,
                    [error |-> "Username and password are required"], {}, {})
       /\ UNCHANGED inflight
  ELSE /\ Cardinality(inflight) < cap
       /\ inflight' = inflight \cup
            {[body |-> body, pc |-> "query", user |-> {}, ops |-> {"lookup"}]}
       /\ UNCHANGED resp

\* lines 110-120: validation, then the query is issued and awaited
LoginValidate(body) ==
  IF Falsy(body.username) \/ Falsy(body.password)
  THEN /\ resp' = LoginResponse(body, 400,
                    [error |-> "Username and password are required"], {}, {})
       /\ UNCHANGED inflight
  ELSE /\ Cardinality(inflight) < cap
       /\ inflight' = inflight \cup
            {[body |-> body, pc |-> "query", user |-> {}, ops |-> {"lookup"}]}
       /\ UNCHANGED resp

LoginRequest ==
  \E body \in LoginBodies :
    /\ Ready
    /\ LoginValidate(body)
    /\ UNCHANGED <<cap, kept, page, users, NODE_ENV, now, jar, lastLogout>>

\* lines 117-129: the query returns; no row is 401, else argon2.verify is
\* started and awaited
LoginLookup(r) ==
  LET rows == Query(users, Value(r.body.username))
  IN  IF rows = {}
      THEN /\ resp' = LoginResponse(r.body, 401,
                        [error |-> "Invalid username or password"], {}, r.ops)
           /\ inflight' = inflight \ {r}
      ELSE /\ inflight' = (inflight \ {r}) \cup
                {[r EXCEPT !.pc = "verify", !.user = rows, !.ops = @ \cup {"verify"}]}
           /\ UNCHANGED resp

LoginQueried ==
  \E r \in inflight :
    /\ Ready
    /\ r.pc = "query"
    /\ LoginLookup(r)
    /\ UNCHANGED <<cap, kept, page, users, NODE_ENV, now, jar, lastLogout>>

\* LoginFinish reading the row from a place the requests share: the row
\* another request in flight has put there, if there is one
LoginFinish_SharedUser(r) ==
  LET others == {o \in inflight : o.pc = "verify" /\ o.user # r.user}
      user == IF others = {} THEN Value(r.user)
              ELSE Value((CHOOSE o \in others : TRUE).user)
  IN  IF ~argon2Verify(user.password_hash, Value(r.body.password))
      THEN LoginResponse(r.body, 401, [error |-> "Invalid username or password"], {}, r.ops)
      ELSE LET token == signToken([sub |-> String(user.id), username |-> user.username,
                                   name |-> user.name], now)
           IN  LoginResponse(r.body, 200,
                 [user |-> [id |-> user.id, username |-> user.username, name |-> user.name]],
                 {buildCookie(AUTH_COOKIE, token, cookieOptions(NODE_ENV))},
                 r.ops \cup {"sign", "setCookie"})

\* LoginFinish telling a wrong password from an unknown username
LoginFinish_WrongPassword(r) ==
  LET user == Value(r.user)
  IN  IF ~argon2Verify(user.password_hash, Value(r.body.password))
      THEN LoginResponse(r.body, 401, [error |-> "Wrong password"], {}, r.ops)
      ELSE LET token == signToken([sub |-> String(user.id), username |-> user.username,
                                   name |-> user.name], now)
           IN  LoginResponse(r.body, 200,
                 [user |-> [id |-> user.id, username |-> user.username, name |-> user.name]],
                 {buildCookie(AUTH_COOKIE, token, cookieOptions(NODE_ENV))},
                 r.ops \cup {"sign", "setCookie"})

\* LoginFinish signing the row's id as it is
LoginFinish_RawSub(r) ==
  LET user == Value(r.user)
  IN  IF ~argon2Verify(user.password_hash, Value(r.body.password))
      THEN LoginResponse(r.body, 401, [error |-> "Invalid username or password"], {}, r.ops)
      ELSE LET token == signToken([sub |-> user.id, username |-> user.username,
                                   name |-> user.name], now)
           IN  LoginResponse(r.body, 200,
                 [user |-> [id |-> user.id, username |-> user.username, name |-> user.name]],
                 {buildCookie(AUTH_COOKIE, token, cookieOptions(NODE_ENV))},
                 r.ops \cup {"sign", "setCookie"})

\* lines 129-153: argon2.verify returns; a mismatch is 401, else the token
\* is signed, the cookie set and the user returned
LoginFinish(r) ==
  LET user == Value(r.user)
  IN  IF ~argon2Verify(user.password_hash, Value(r.body.password))
      THEN LoginResponse(r.body, 401, [error |-> "Invalid username or password"], {}, r.ops)
      ELSE LET token == signToken([sub |-> String(user.id), username |-> user.username,
                                   name |-> user.name], now)
           IN  LoginResponse(r.body, 200,
                 [user |-> [id |-> user.id, username |-> user.username, name |-> user.name]],
                 {buildCookie(AUTH_COOKIE, token, cookieOptions(NODE_ENV))},
                 r.ops \cup {"sign", "setCookie"})

LoginVerified ==
  \E r \in inflight :
    /\ Ready
    /\ r.pc = "verify"
    /\ resp' = LoginFinish(r)
    /\ inflight' = inflight \ {r}
    /\ UNCHANGED <<cap, kept, page, users, NODE_ENV, now, jar, lastLogout>>

(***************************************************************************)
(* GET /api/me                                                             *)
(***************************************************************************)
\* tokens a client can present that no login issued
BaseClaims ==
  [sub |-> Text("1"), username |-> "alice", name |-> {}, iat |-> 0,
   exp |-> JWT_EXPIRES_IN + Window, iss |-> ISSUER, aud |-> AUDIENCE]

CraftedTokens ==
  LET c == BaseClaims
  IN  { MkToken(c, JWT_SECRET, c),
        MkToken(c, "other-secret", c),
        MkToken([c EXCEPT !.username = "bob"], JWT_SECRET, c),
        MkToken([c EXCEPT !.iss = "other_issuer"], JWT_SECRET, [c EXCEPT !.iss = "other_issuer"]),
        MkToken([c EXCEPT !.aud = "other_audience"], JWT_SECRET, [c EXCEPT !.aud = "other_audience"]),
        MkToken([c EXCEPT !.exp = 1], JWT_SECRET, [c EXCEPT !.exp = 1]),
        MkToken([c EXCEPT !.exp = 1], "other-secret", [c EXCEPT !.exp = 1]) }

TokenHeader(value) == AUTH_COOKIE \o Str("=") \o value

\* Cookie headers a client can send, besides the one of its jar
CraftedHeaders ==
  { {}, {<<>>},
    {AUTH_COOKIE},
    {TokenHeader(<<>>)},
    {TokenHeader(Str("x"))},
    {TokenHeader(Str("%"))},
    {Str("x") \o Str("=") \o Str("x")},
    {Str("x") \o Str("=") \o <<Ch("%"), Ch("C"), Ch("3")>> \o <<Ch(";"), Ch(" ")>>
       \o TokenHeader(<<[jwt |-> MkToken(BaseClaims, JWT_SECRET, BaseClaims)]>>)},
    {TokenHeader(<<[jwt |-> MkToken(BaseClaims, JWT_SECRET, BaseClaims)], Ch("x")>>)},
    {TokenHeader(Str("x")) \o <<Ch(";"), Ch(" ")>>
       \o TokenHeader(<<[jwt |-> MkToken(BaseClaims, JWT_SECRET, BaseClaims)]>>)},
    {TokenHeader(<<[jwt |-> MkToken(BaseClaims, JWT_SECRET, BaseClaims)]>>)
       \o <<Ch(";"), Ch(" ")>> \o TokenHeader(Str("x"))} }
  \cup { {TokenHeader(<<[jwt |-> t]>>)} : t \in CraftedTokens }

MeResponse(header, via, status, out) ==
  [kind |-> "me", req |-> header, via |-> via, status |-> status, body |-> out,
   setCookie |-> {}]

\* what the framework answers when a handler throws
Uncaught(e) == [status |-> 500, body |-> [fault |-> e]]

\* meHandler telling an expired token from the other failures
meHandler_ExpiredMessage(header, t) ==
  LET cookies == parseCookies(header)
  IN  IF ~cookies.ok THEN Uncaught("URIError")
      ELSE LET token == IF AUTH_COOKIE \in DOMAIN cookies.val
                        THEN cookies.val[AUTH_COOKIE] ELSE <<>>
           IN  IF Len(token) = 0
               THEN [status |-> 401, body |-> [error |-> "Missing session cookie"]]
               ELSE LET v == verifyToken(token, t)
                    IN  IF v.ok
                        THEN [status |-> 200,
                              body |-> [user |-> [id |-> v.payload.sub,
                                                  username |-> v.payload.username,
                                                  name |-> v.payload.name]]]
                        ELSE IF v.err = "jwt expired"
                        THEN [status |-> 401, body |-> [error |-> "Session expired"]]
                        ELSE [status |-> 401,
                              body |-> [error |-> "Invalid or expired session"]]

\* meHandler answering only while the record of the token's user is in the table
meHandler_UserMustExist(header, t) ==
  LET cookies == parseCookies(header)
  IN  IF ~cookies.ok THEN Uncaught("URIError")
      ELSE LET token == IF AUTH_COOKIE \in DOMAIN cookies.val
                        THEN cookies.val[AUTH_COOKIE] ELSE <<>>
           IN  IF Len(token) = 0
               THEN [status |-> 401, body |-> [error |-> "Missing session cookie"]]
               ELSE LET v == verifyToken(token, t)
                    IN  IF v.ok /\ Query(users, v.payload.username) # {}
                        THEN [status |-> 200,
                              body |-> [user |-> [id |-> v.payload.sub,
                                                  username |-> v.payload.username,
                                                  name |-> v.payload.name]]]
                        ELSE [status |-> 401,
                              body |-> [error |-> "Invalid or expired session"]]

\* lines 155-177, on the Cookie header `header` at clock reading t
meHandler(header, t) ==
  LET cookies == parseCookies(header)
  IN  IF ~cookies.ok THEN Uncaught("URIError")
      ELSE LET token == IF AUTH_COOKIE \in DOMAIN cookies.val
                        THEN cookies.val[AUTH_COOKIE] ELSE <<>>
           IN  IF Len(token) = 0
               THEN [status |-> 401, body |-> [error |-> "Missing session cookie"]]
               ELSE LET v == verifyToken(token, t)
                    IN  IF v.ok
                        THEN [status |-> 200,
                              body |-> [user |-> [id |-> v.payload.sub,
                                                  username |-> v.payload.username,
                                                  name |-> v.payload.name]]]
                        ELSE [status |-> 401,
                              body |-> [error |-> "Invalid or expired session"]]

Me(header, via) ==
  LET r == meHandler(header, now)
  IN  /\ Ready
      /\ resp' = MeResponse(header, via, r.status, r.body)
      /\ UNCHANGED <<cap, kept, page, users, NODE_ENV, now, inflight, jar, lastLogout>>

\* the browser sends the cookie of its jar
MeFromJar == Me(jar.cookie, jar)

\* any client sends any header
MeCrafted == \E header \in CraftedHeaders : Me(header, NoJar)

(***************************************************************************)
(* POST /api/logout                                                        *)
(***************************************************************************)
\* logoutHandler setting no cookie
logoutHandler_NoCookie(env) ==
  [kind |-> "logout", status |-> 200, body |-> [success |-> TRUE], setCookie |-> {}]

\* lines 178-185; the handler reads nothing of the request
logoutHandler(env) ==
  [kind |-> "logout", status |-> 200, body |-> [success |-> TRUE],
   setCookie |-> {buildCookie(AUTH_COOKIE, <<>>, clearCookieOptions(env))}]

\* any client sends any request
Logout ==
  /\ Ready
  /\ \E header \in CraftedHeaders \cup {jar.cookie} : resp' = logoutHandler(NODE_ENV)
  /\ UNCHANGED <<cap, kept, page, users, NODE_ENV, now, inflight, jar, lastLogout>>

(***************************************************************************)
(* The client receives the response                                        *)
(***************************************************************************)
\* the browser, on Max-Age=0, drops the cookie or keeps it with the empty value
ClearedJars(setCookie) ==
  { [cookie |-> {}, src |-> "logout"],
    [cookie |-> {CookiePair(setCookie)}, src |-> "logout"] }

\* the jar after the browser has received r at clock reading t: a Set-Cookie
\* replaces the cookie, and src is the login or logout answered last
Received(r, t) ==
  IF r.kind = "login" /\ r.setCookie # {}
  THEN { [cookie |-> {CookiePair(Value(r.setCookie))}, src |-> "login",
          user |-> r.body.user, at |-> t, rejected |-> FALSE] }
  ELSE IF r.kind = "logout"
  THEN IF r.setCookie # {} THEN ClearedJars(Value(r.setCookie))
       ELSE { [cookie |-> jar.cookie, src |-> "logout"] }
  ELSE IF r.kind = "me" /\ r.via = jar /\ jar.src = "login" /\ r.status = 401
  THEN { [jar EXCEPT !.rejected = TRUE] }
  ELSE { jar }

Deliver ==
  /\ ~Ready
  /\ jar' \in Received(resp, now)
  /\ lastLogout' = IF resp.kind = "logout" THEN {resp} ELSE lastLogout
  /\ resp' = NoResponse
  /\ UNCHANGED <<cap, kept, page, users, NODE_ENV, now, inflight>>

(***************************************************************************)
(* Clock                                                                   *)
(***************************************************************************)
Tick ==
  /\ Ready
  /\ \E t \in ClockPoints : t > now /\ now' = t
  /\ UNCHANGED <<cap, kept, page, users, NODE_ENV, inflight, resp, jar, lastLogout>>

Next ==
  \/ LoginRequest
  \/ LoginQueried
  \/ LoginVerified
  \/ MeFromJar
  \/ MeCrafted
  \/ Logout
  \/ Deliver
  \/ Tick

Spec == Init /\ [][Next]_vars

TypeOK ==
  /\ now \in ClockPoints
  /\ Cardinality(inflight) <= cap

(***************************************************************************)
(* Properties                                                              *)
(***************************************************************************)
\* the response in resp answers GET /api/me sent with the cookie a login set
MeAfterLogin == resp.kind = "me" /\ resp.via.src = "login" /\ resp.req = resp.via.cookie

\* the token string the Cookie header of the request in resp presents
Presented(req) ==
  LET c == parseCookies(req)
  IN  IF c.ok /\ AUTH_COOKIE \in DOMAIN c.val THEN {c.val[AUTH_COOKIE]} ELSE {}

\* C1: for every stored record and every (username, password) matching it,
\* POST /api/login returns 200, and a following GET /api/me carrying the
\* cookie of that login, before the token expires, returns 200 with a user
\* whose id and username are the values of the login response.
C1_LoginThenIdentifySameUser ==
  /\ (/\ resp.kind = "login"
      /\ ~Falsy(resp.req.username) /\ ~Falsy(resp.req.password)
      /\ \E u \in users : /\ u.username = Value(resp.req.username)
                          /\ u.password_hash = Hash(Value(resp.req.password)))
     => resp.status = 200
  /\ (/\ MeAfterLogin
      /\ now < ((resp.via.at \div TicksPerSec) + JWT_EXPIRES_IN) * TicksPerSec)
     => /\ resp.status = 200
        /\ resp.body.user.id = resp.via.user.id
        /\ resp.body.user.username = resp.via.user.username

\* C2: GET /api/me accepts a presented token if and only if its signature
\* verifies against the server secret, its issuer and audience are the
\* expected ones, and the current time is before its expires_at.
C2_TokenAcceptedIff ==
  resp.kind = "me" =>
    \A tok \in Presented(resp.req) :
      tok # <<>> =>
        (resp.status = 200 <=>
           /\ Len(tok) = 1 /\ IsJwtSym(tok[1])
           /\ tok[1].jwt.sig = [key |-> JWT_SECRET, over |-> tok[1].jwt.claims]
           /\ tok[1].jwt.claims.iss = "web_test"
           /\ tok[1].jwt.claims.aud = "web_test_frontend"
           /\ now < tok[1].jwt.claims.exp * TicksPerSec)

C2_Witness ==
  /\ resp.kind = "me" /\ resp.status = 200 /\ resp.via = NoJar
  /\ \E tok \in Presented(resp.req) : tok[1].jwt.claims.exp * TicksPerSec = now + 1

\* C3: a login with non-empty fields whose username does not exist and one
\* whose username exists with a wrong password get the same response: 401,
\* {error: "Invalid username or password"}, no Set-Cookie.
C3_GenericLoginFailure ==
  (/\ resp.kind = "login"
   /\ ~Falsy(resp.req.username) /\ ~Falsy(resp.req.password)
   /\ \A u \in users : \/ u.username # Value(resp.req.username)
                       \/ u.password_hash # Hash(Value(resp.req.password)))
  => /\ resp.status = 401
     /\ resp.body = [error |-> "Invalid username or password"]
     /\ resp.setCookie = {}

C3_Witness ==
  /\ resp.kind = "login" /\ resp.status = 401
  /\ \E u \in users : /\ u.username = Value(resp.req.username)
                      /\ u.password_hash # Hash(Value(resp.req.password))

\* the request in resp is GET /api/me with no cookie
NoCookieCase == resp.kind = "me" /\ Presented(resp.req) \subseteq {<<>>} /\ parseCookies(resp.req).ok

\* the request in resp is GET /api/me with a token that is malformed, signed
\* with another secret, or expired
BadTokenCase ==
  /\ resp.kind = "me"
  /\ \E tok \in Presented(resp.req) :
       /\ tok # <<>>
       /\ \/ Len(tok) # 1 \/ ~IsJwtSym(tok[1])
          \/ tok[1].jwt.sig.key # JWT_SECRET
          \/ now >= tok[1].jwt.claims.exp * TicksPerSec

\* C4 as stated: identify with no cookie, a malformed token, a token signed
\* with a different secret and an expired token all yield 401 with the error
\* "Invalid or expired session".
C4_Original ==
  (NoCookieCase \/ BadTokenCase)
  => resp.status = 401 /\ resp.body = [error |-> "Invalid or expired session"]

\* C4 amended: identify with a malformed token, a token signed with a
\* different secret or an expired token yields 401 "Invalid or expired
\* session"; with no session cookie (or an empty one) it yields 401
\* "Missing session cookie".
C4_Amended ==
  /\ BadTokenCase
     => resp.status = 401 /\ resp.body = [error |-> "Invalid or expired session"]
  /\ NoCookieCase
     => resp.status = 401 /\ resp.body = [error |-> "Missing session cookie"]

C4_Witness ==
  /\ BadTokenCase
  /\ \E tok \in Presented(resp.req) :
       /\ Len(tok) = 1 /\ IsJwtSym(tok[1])
       /\ tok[1].jwt.sig = [key |-> JWT_SECRET, over |-> tok[1].jwt.claims]
       /\ now >= tok[1].jwt.claims.exp * TicksPerSec
  /\ resp.status = 401

\* C5 as stated: a token issued by login at time t is accepted at every time
\* strictly before t + 24h and rejected at every time at or after t + 24h.
C5_Original ==
  MeAfterLogin =>
    /\ now < resp.via.at + JWT_EXPIRES_IN * TicksPerSec => resp.status = 200
    /\ now >= resp.via.at + JWT_EXPIRES_IN * TicksPerSec => resp.status = 401

\* C5 amended: a token issued by login at time t expires 24h after t
\* truncated to the whole second: it is accepted while the current whole
\* second is before that, rejected with 401 from that second on (the boundary
\* fails), and once rejected it is never accepted again.
C5_Amended ==
  MeAfterLogin =>
    LET expires == (resp.via.at \div TicksPerSec) + JWT_EXPIRES_IN
    IN  /\ now < expires * TicksPerSec => resp.status = 200
        /\ now >= expires * TicksPerSec => resp.status = 401
        /\ resp.via.rejected => resp.status = 401

C5_Witness ==
  /\ MeAfterLogin
  /\ now = ((resp.via.at \div TicksPerSec) + JWT_EXPIRES_IN) * TicksPerSec
  /\ resp.via.at % TicksPerSec # 0
  /\ resp.status = 401

\* C6: after POST /api/logout, a following GET /api/me of the same client,
\* whose cookie the logout response replaced (empty value, or no cookie),
\* yields 401.
C6_IdentifyAfterLogout ==
  (resp.kind = "me" /\ resp.via.src = "logout" /\ resp.req = resp.via.cookie)
  => resp.status = 401

C6_Witness ==
  /\ resp.kind = "me" /\ resp.via.src = "logout" /\ resp.req = resp.via.cookie
  /\ resp.req = {TokenHeader(<<>>)}
  /\ resp.status = 401

\* C7: for every Cookie header, GET /api/me ends with 200 or 401; no failure
\* escapes the handler as an uncaught fault.
C7_IdentifyNeverFaults ==
  resp.kind = "me" => resp.status \in {200, 401}

\* C8: POST /api/logout always returns 200 {success: true} and sets
\* auth_token with the empty value and Max-Age=0, and the response of a
\* second logout equals that of the first.
C8_LogoutIdempotent ==
  resp.kind = "logout" =>
    /\ resp.status = 200
    /\ resp.body = [success |-> TRUE]
    /\ \E c \in resp.setCookie :
         LET parts == Split(c, ";")
         IN  /\ Trim(parts[1]) = Str("auth_token") \o Str("=")
             /\ \E i \in 2..Len(parts) : Trim(parts[i]) = <<Ch("Max-Age"), Ch("="), Ch("0")>>
    /\ \A prev \in lastLogout : prev = resp

C8_Witness == resp.kind = "logout" /\ lastLogout # {} /\ jar.src = "logout"

\* C9: login rejects with 400 whenever username or password is empty or
\* missing, before any business logic: no lookup, no password verification,
\* no token signed, no cookie set.
C9_ValidationFirst ==
  /\ (resp.kind = "login" /\ (Falsy(resp.req.username) \/ Falsy(resp.req.password)))
     => resp.status = 400 /\ resp.ops = {} /\ resp.setCookie = {}
  /\ \A r \in inflight : ~Falsy(r.body.username) /\ ~Falsy(r.body.password)

C9_Witness ==
  /\ resp.kind = "login" /\ resp.status = 400
  /\ ~Falsy(resp.req.username) /\ resp.req.password = {""}

\* C10: a login response carries Set-Cookie if and only if its status is
\* 200; on 400 and 401 no token is signed and no cookie set; on 200 the
\* cookie's value is a token that verifies to claims whose subject is the
\* string form of the matched record's id and whose username is the record's.
C10_CookieIffSuccess ==
  resp.kind = "login" =>
    /\ resp.setCookie # {} <=> resp.status = 200
    /\ resp.status \in {400, 401} => resp.ops \cap {"sign", "setCookie"} = {}
    /\ resp.status = 200 =>
         \E u \in users :
           /\ u.username = Value(resp.req.username)
           /\ \E tok \in Presented({CookiePair(Value(resp.setCookie))}) :
                LET v == verifyToken(tok, now)
                IN  /\ v.ok
                    /\ v.payload.sub = String(u.id)
                    /\ v.payload.username = u.username

C10_Witness ==
  /\ resp.kind = "login" /\ resp.status = 200
  /\ \E u \in users : u.username = Value(resp.req.username) /\ "num" \in DOMAIN u.id
(***************************************************************************)
(* Requests in flight at once                                              *)
(***************************************************************************)
InitConc ==
  /\ cap = MaxConcurrent
  /\ kept = NoJar
  /\ page = PageInit
  /\ users = UsersTable
  /\ NODE_ENV \in {"development", "production"}
  /\ now = 0
  /\ inflight = {}
  /\ resp = NoResponse
  /\ jar = NoJar
  /\ lastLogout = {}

NextConc ==
  \/ LoginRequest
  \/ LoginQueried
  \/ LoginVerified
  \/ MeFromJar
  \/ Logout
  \/ Deliver
  \/ Tick

SpecConc == InitConc /\ [][NextConc]_vars

\* lines 109-154 run from the first line to the last with nothing in between,
\* on the table `table` at clock reading t
LoginAlone(body, table, t, env) ==
  IF Falsy(body.username) \/ Falsy(body.password)
  THEN [status |-> 400, body |-> [error |-> "Username and password are required"],
        setCookie |-> {}]
  ELSE LET rows == Query(table, Value(body.username))
       IN  IF rows = {} \/ ~argon2Verify(Value(rows).password_hash, Value(body.password))
           THEN [status |-> 401, body |-> [error |-> "Invalid username or password"],
                 setCookie |-> {}]
           ELSE LET user == Value(rows)
                    token == signToken([sub |-> String(user.id), username |-> user.username,
                                        name |-> user.name], t)
                IN  [status |-> 200,
                     body |-> [user |-> [id |-> user.id, username |-> user.username,
                                         name |-> user.name]],
                     setCookie |-> {buildCookie(AUTH_COOKIE, token, cookieOptions(env))}]

\* C11: with any number of requests in flight and any interleaving of their
\* suspension points, every request gets the response it would get if it ran
\* alone, and no request changes state that another request reads.
C11_RequestsIndependent ==
  /\ resp.kind = "login" =>
       [status |-> resp.status, body |-> resp.body, setCookie |-> resp.setCookie]
         = LoginAlone(resp.req, users, now, NODE_ENV)
  /\ resp.kind = "me" =>
       [status |-> resp.status, body |-> resp.body] = meHandler(resp.req, now)
  /\ resp.kind = "logout" => resp = logoutHandler(NODE_ENV)
  /\ users = UsersTable
  /\ \A r \in inflight :
       r.pc = "verify" => r.user = Query(UsersTable, Value(r.body.username))

C11_Witness ==
  /\ resp.kind = "login" /\ resp.status = 200
  /\ \E o \in inflight : o.pc = "verify" /\ Value(o.user).username # resp.body.user.username

\* C12: every session cookie the server sets has HttpOnly, has Secure if and
\* only if the environment is production, has Max-Age 86400 when a login set
\* it and 0 when a logout set it, and its attributes are, in this order,
\* HttpOnly, Path=/, SameSite=Lax, Max-Age, [Secure].
C12_CookieAttributes ==
  resp.kind \in {"login", "logout"} =>
    \A c \in resp.setCookie :
      LET parts == Split(c, ";")
          attrs == [i \in 1..(Len(parts) - 1) |-> Trim(parts[i + 1])]
          maxAge == IF resp.kind = "login" THEN "86400" ELSE "0"
      IN  attrs = <<  <<Ch("HttpOnly")>>,
                      <<Ch("Path"), Ch("="), Ch("/")>>,
                      <<Ch("SameSite"), Ch("="), Ch("Lax")>>,
                      <<Ch("Max-Age"), Ch("="), Ch(maxAge)>> >>
                  \o (IF NODE_ENV = "production" THEN << <<Ch("Secure")>> >> ELSE <<>>)

C12_Witness ==
  /\ resp.kind = "login" /\ resp.setCookie # {} /\ NODE_ENV = "development"
  /\ lastLogout # {}

(***************************************************************************)
(* The cookie codec on its own                                             *)
(***************************************************************************)
\* the strings of at most n characters of chars
Strings(chars, n) == UNION { [1..k -> {Ch(c) : c \in chars}] : k \in 0..n }

\* cookie names given to buildCookie
CodecNames == (Strings({"a", "=", ";", " "}, MaxNameLen) \ {<<>>}) \cup {Str("__proto__")}

\* cookie values given to buildCookie
CodecValues == Strings({"a", ";", "=", " ", "%", "U+00E9", "U+D800"}, MaxValueLen)

\* attribute lists given to buildCookie
CodecOptions ==
  { <<>>, cookieOptions("development"), cookieOptions("production"),
    clearCookieOptions("production"), <<Attr("a", "x")>>, <<Attr("Path", "%")>>,
    <<Str("HttpOnly"), Attr("Path", "/a;a=x")>> }

\* Cookie headers given to parseCookies: parts joined by ";" or "; "
CodecHeaders ==
  LET parts == Strings({"a", "=", "%"}, MaxPartLen)
      lists == UNION { [1..k -> parts] : k \in 1..MaxParts }
  IN  { Join(l, sep) : l \in lists, sep \in {<<Ch(";")>>, <<Ch(";"), Ch(" ")>>} }

InitCodec ==
  /\ cap = MaxInflight
  /\ kept = NoJar
  /\ page = PageInit
  /\ users = UsersTable
  /\ NODE_ENV = "development"
  /\ now = 0
  /\ inflight = {}
  /\ resp = NoResponse
  /\ jar = NoJar
  /\ lastLogout = {}

\* parseCookies(buildCookie(name, value, options))
RoundTrip ==
  /\ Ready
  /\ \E name \in CodecNames, value \in CodecValues, options \in CodecOptions :
    /\ resp' = [kind |-> "roundtrip", name |-> name, value |-> value, options |-> options,
                out |-> IF EncodeThrows(value) THEN [ok |-> FALSE, val |-> <<>>]
                        ELSE parseCookies({buildCookie(name, value, options)})]
    /\ UNCHANGED <<cap, kept, page, users, NODE_ENV, now, inflight, jar, lastLogout>>

\* parseCookies(header)
ParseHeader ==
  /\ Ready
  /\ \E header \in CodecHeaders :
    /\ resp' = [kind |-> "parse", header |-> header, out |-> parseCookies({header})]
    /\ UNCHANGED <<cap, kept, page, users, NODE_ENV, now, inflight, jar, lastLogout>>

NextCodec ==
  \/ RoundTrip
  \/ ParseHeader
  \/ MeCrafted
  \/ Deliver

SpecCodec == InitCodec /\ [][NextCodec]_vars

\* C13 as stated: for every cookie name, every value and every attribute
\* list, parseCookies(buildCookie(name, value, attrs))[name] equals value.
C13_Original ==
  resp.kind = "roundtrip" =>
    /\ resp.out.ok
    /\ resp.name \in DOMAIN resp.out.val
    /\ resp.out.val[resp.name] = resp.value

\* the name is not empty, has no '=' and no ';', and no space at its ends,
\* and is not __proto__
PlainName(name) ==
  /\ Len(name) > 0 /\ Trim(name) = name /\ name # Str("__proto__")
  /\ \A i \in 1..Len(name) : ~IsChar(name[i], "=") /\ ~IsChar(name[i], ";")

\* no attribute has a ';' or a '%', and none is named as the cookie
PlainOptions(options, name) ==
  \A i \in 1..Len(options) :
    /\ \A j \in 1..Len(options[i]) :
         ~IsChar(options[i][j], ";") /\ ~IsChar(options[i][j], "%")
    /\ Split(Trim(options[i]), "=")[1] # name

\* C13 amended: for every cookie name that is not empty, is not __proto__ and
\* has no '=', no ';' and no space at its ends, every value without a lone surrogate
\* (values with ';', '=', '%', spaces and non-ASCII characters included), and
\* every attribute list whose attributes have no ';' and no '%' and are not
\* named as the cookie, parseCookies(buildCookie(name, value, attrs))[name]
\* equals value.
C13_Amended ==
  (/\ resp.kind = "roundtrip"
   /\ PlainName(resp.name)
   /\ \A i \in 1..Len(resp.value) : ~IsChar(resp.value[i], "U+D800")
   /\ PlainOptions(resp.options, resp.name))
  => /\ resp.out.ok
     /\ resp.name \in DOMAIN resp.out.val
     /\ resp.out.val[resp.name] = resp.value

C13_Witness ==
  /\ resp.kind = "roundtrip"
  /\ resp.value = <<Ch(";"), Ch("U+00E9")>>
  /\ resp.options = cookieOptions("production")
  /\ PlainName(resp.name)
  /\ resp.out.ok /\ resp.name \in DOMAIN resp.out.val
  /\ resp.out.val[resp.name] = resp.value

\* the parts of the header of the parse in resp
HeaderParts == Split(resp.header, ";")

\* the name of a part: the text before its first '='
PartName(part) == Split(Trim(part), "=")[1]

\* the part has a '=' and a name
WellFormed(part) ==
  /\ \E j \in 1..Len(part) : IsChar(part[j], "=")
  /\ Len(PartName(part)) > 0

\* C14: for every header string, parseCookies does not throw, and a part
\* with no '=' or with an empty name contributes no entry to the result.
C14_MalformedSkipped ==
  resp.kind = "parse" =>
    /\ resp.out.ok
    /\ \A k \in DOMAIN resp.out.val :
         \E i \in 1..Len(HeaderParts) :
           WellFormed(HeaderParts[i]) /\ PartName(HeaderParts[i]) = k

\* C16: when a name occurs more than once in a Cookie header, parseCookies
\* returns the value of its last occurrence, and GET /api/me answers as it
\* does on the last auth_token of the header alone.
C16_LastOccurrenceWins ==
  /\ (resp.kind = "parse" /\ resp.out.ok) =>
       \A k \in DOMAIN resp.out.val :
         LET at == {i \in 1..Len(HeaderParts) : PartName(HeaderParts[i]) = k}
             last == CHOOSE i \in at : \A j \in at : j <= i
             text == Trim(HeaderParts[last])
         IN  resp.out.val[k]
               = decodeURIComponent(SubSeq(text, Len(k) + 2, Len(text))).val
  /\ (resp.kind = "me" /\ parseCookies(resp.req).ok) =>
       \A h \in resp.req :
         LET parts == Split(h, ";")
             at == {i \in 1..Len(parts) : PartName(parts[i]) = AUTH_COOKIE}
         IN  at # {} =>
               [status |-> resp.status, body |-> resp.body]
                 = meHandler({parts[CHOOSE i \in at : \A j \in at : j <= i]}, now)

C16_Witness ==
  /\ resp.kind = "parse" /\ resp.out.ok
  /\ resp.header = <<Ch("a"), Ch("="), Ch(";"), Ch(" "), Ch("a"), Ch("="), Ch("a")>>
  /\ resp.out.val[Str("a")] = Str("a")

(***************************************************************************)
(* Tokens of earlier logins, and the credential store changing             *)
(***************************************************************************)
\* a client puts aside the cookie a login gave it
Keep ==
  /\ Ready
  /\ jar.src = "login"
  /\ kept = NoJar
  /\ kept' = [jar EXCEPT !.rejected = FALSE]
  /\ UNCHANGED <<cap, page, users, NODE_ENV, now, inflight, resp, jar, lastLogout>>

\* ... and presents it later, whatever its browser holds by then
MeKept ==
  /\ kept.src = "login"
  /\ Me(kept.cookie, kept)

\* the credential record of the kept token's user
KeptRecords == {u \in users : kept.src = "login" /\ u.username = kept.user.username}

\* the table read at lines 117-120 loses the record
RemoveRecord ==
  /\ Ready
  /\ \E u \in KeptRecords : users' = users \ {u}
  /\ UNCHANGED <<cap, kept, page, NODE_ENV, now, inflight, resp, jar, lastLogout>>

\* ... or the record gets another password and another name
ChangeRecord ==
  /\ Ready
  /\ \E u \in KeptRecords, p \in Passwords :
       LET v == [u EXCEPT !.password_hash = Hash(p), !.name = {"Renamed"}]
       IN  /\ u \in UsersTable /\ v.password_hash # u.password_hash
           /\ users' = (users \ {u}) \cup {v}
  /\ UNCHANGED <<cap, kept, page, NODE_ENV, now, inflight, resp, jar, lastLogout>>

\* the page sends a login only with both fields filled (line 425)
LoginSubmitted ==
  \E body \in LoginBodies :
    /\ Ready
    /\ ~Falsy(body.username) /\ ~Falsy(body.password)
    /\ LoginValidate(body)
    /\ UNCHANGED <<cap, kept, page, users, NODE_ENV, now, jar, lastLogout>>

NextRevoke ==
  \/ LoginSubmitted
  \/ LoginQueried
  \/ LoginVerified
  \/ MeKept
  \/ Logout
  \/ Deliver
  \/ Tick
  \/ Keep
  \/ RemoveRecord
  \/ ChangeRecord

InitRevoke ==
  /\ cap = MaxInflight
  /\ kept = NoJar
  /\ page = PageInit
  /\ users = UsersTable
  /\ NODE_ENV = "production"
  /\ now = 0
  /\ inflight = {}
  /\ resp = NoResponse
  /\ jar = NoJar
  /\ lastLogout = {}

SpecRevoke == InitRevoke /\ [][NextRevoke]_vars

\* the token in the cookie pair `pair`
TokenOf(pair) == pair[CHOOSE i \in 1..Len(pair) : IsJwtSym(pair[i])].jwt

\* C15: after any logins, logouts and identify requests and any change to or
\* removal of the credential record, GET /api/me presenting the token of an
\* earlier successful login returns 200 with that token's claims whenever the
\* time is before the token's expiry; a later login does not invalidate it.
C15_NeverRevoked ==
  MeAfterLogin =>
    LET claims == TokenOf(Value(resp.req)).claims
    IN  now < claims.exp * TicksPerSec =>
          /\ resp.status = 200
          /\ resp.body = [user |-> [id |-> claims.sub, username |-> claims.username,
                                    name |-> claims.name]]

\* the kept token answers 200 after a logout, a later login of another user
\* and the removal of its user's record
C15_Witness ==
  /\ MeAfterLogin /\ resp.via = kept /\ resp.status = 200
  /\ lastLogout # {}
  /\ jar.src = "login" /\ jar.user.username # kept.user.username
  /\ Query(users, kept.user.username) = {}

(***************************************************************************)
(* The page                                                                *)
(***************************************************************************)
serverVars == <<users, NODE_ENV, now, inflight, resp, jar, lastLogout, cap, kept>>

\* the statuses a response can have
Statuses == {200, 201, 400, 401, 500}

\* res.ok
Ok(status) == status >= 200 /\ status <= 299

\* a JSON value: null, or an object with each of these fields there or not
JsonNull == [null |-> TRUE]

Object(user, username, error, message) ==
  [user |-> user, username |-> username, error |-> error, message |-> message]

Profile == Object({}, {"alice"}, {}, {})

JsonValues ==
  { JsonNull, Object({}, {}, {}, {}), Profile, Object({Profile}, {}, {}, {}),
    Object({}, {}, {"Invalid username or password"}, {}),
    Object({}, {}, {}, {"Try again later"}),
    Object({}, {}, {"Invalid username or password"}, {"Try again later"}) }

\* what await res.json() gives: nothing when it rejects, else the value
Bodies == {{}} \cup {{v} : v \in JsonValues}

\* what the user can have typed in a field
Typed == {"", "x"}

\* the first four lines of fetchMe, login and logout
Begin(p) ==
  [p EXCEPT !.loading = TRUE, !.error = NoMessage, !.success = "", !.statusCode = {}]

\* fetchMe(true) at line 320; the click handler of line 385 gets the event
silentUnauthorized(p) == p.op \in {"mount", "refresh"}

\* fetchMeReturn leaving loading as it is
fetchMeReturn_StillLoading(p) ==
  LET q == [p EXCEPT !.pc = "idle"]
  IN  IF p.op = "mount" THEN [q EXCEPT !.checkingSession = FALSE] ELSE q

\* the finally of fetchMe, and then what its caller does next: onMount line
\* 321, login lines 286-288, the click handler nothing
fetchMeReturn(p) ==
  LET q == [p EXCEPT !.loading = FALSE, !.pc = "idle"]
  IN  IF p.op = "mount" THEN [q EXCEPT !.checkingSession = FALSE] ELSE q

\* fetchMeResponse leaving isAuthenticated and me as they are on a 401
fetchMeResponse_KeepOn401(p, status) ==
  LET q == [p EXCEPT !.statusCode = {status}]
  IN  IF ~Ok(status)
      THEN IF status = 401
           THEN IF silentUnauthorized(p) THEN fetchMeReturn(q)
                ELSE fetchMeReturn(
                       [q EXCEPT !.error = Message("Session expired. Please login again.")])
           ELSE fetchMeReturn(
                  [q EXCEPT !.error = StatusMessage("Failed to fetch profile", status)])
      ELSE [q EXCEPT !.pc = "me.json"]

\* lines 219-235: the fetch of fetchMe resolves with a response
fetchMeResponse(p, status) ==
  LET q == [p EXCEPT !.statusCode = {status}]
  IN  IF ~Ok(status)
      THEN IF status = 401
           THEN LET r == [q EXCEPT !.isAuthenticated = FALSE, !.me = {}]
                IN  IF silentUnauthorized(p) THEN fetchMeReturn(r)
                    ELSE fetchMeReturn(
                           [r EXCEPT !.error = Message("Session expired. Please login again.")])
           ELSE fetchMeReturn(
                  [q EXCEPT !.error = StatusMessage("Failed to fetch profile", status)])
      ELSE [q EXCEPT !.pc = "me.json"]

\* lines 237-242: res.json() of fetchMe rejects or resolves
fetchMeJson(p, body) ==
  IF body = {}
  THEN fetchMeReturn([p EXCEPT !.error = Message("Unexpected token")])
  ELSE LET data == Value(body)
       IN  fetchMeReturn(
             [p EXCEPT !.me = IF data = JsonNull THEN {}
                              ELSE IF data.user # {} THEN data.user ELSE {data},
                       !.isAuthenticated = TRUE,
                       !.success = "Logged in successfully"])

\* the fetch of fetchMe rejects (lines 241-245)
fetchMeRejected(p) == fetchMeReturn([p EXCEPT !.error = Message("Failed to fetch")])

\* loginResponse clearing the password whatever the status
loginResponse_AlwaysClear(p, status) ==
  LET q == [p EXCEPT !.statusCode = {status}, !.password = ""]
  IN  IF ~Ok(status) THEN [q EXCEPT !.pc = "login.json"]
      ELSE [Begin(q) EXCEPT !.pc = "me.fetch"]

\* lines 268-283: the fetch of login resolves with a response; on an OK one
\* fetchMe() starts at once
loginResponse(p, status) ==
  LET q == [p EXCEPT !.statusCode = {status}]
  IN  IF ~Ok(status) THEN [q EXCEPT !.pc = "login.json"]
      ELSE [Begin([q EXCEPT !.password = ""]) EXCEPT !.pc = "me.fetch"]

\* loginJson where the error field is not overridden by the message field
loginJson_ErrorFirst(p, body) ==
  LET fallback == StatusMessage("Login failed", Value(p.statusCode))
      message == IF body = {} \/ Value(body) = JsonNull THEN fallback
                 ELSE IF ~Falsy(Value(body).error) THEN Message(Value(Value(body).error))
                 ELSE IF ~Falsy(Value(body).message)
                 THEN Message(Value(Value(body).message))
                 ELSE fallback
  IN  [p EXCEPT !.error = message, !.loading = FALSE, !.pc = "idle"]

\* lines 270-279 and 284-288: res.json() of a login that is not OK rejects or
\* resolves
loginJson(p, body) ==
  LET fallback == StatusMessage("Login failed", Value(p.statusCode))
      message == IF body = {} \/ Value(body) = JsonNull THEN fallback
                 ELSE IF ~Falsy(Value(body).message)
                 THEN Message(Value(Value(body).message))
                 ELSE IF ~Falsy(Value(body).error) THEN Message(Value(Value(body).error))
                 ELSE fallback
  IN  [p EXCEPT !.error = message, !.loading = FALSE, !.pc = "idle"]

\* the fetch of login or logout rejects (lines 284-288, 311-315)
fetchRejected(p) ==
  [p EXCEPT !.error = Message("Failed to fetch"), !.loading = FALSE, !.pc = "idle"]

\* lines 303-315: the fetch of logout resolves with a response
logoutResponse(p, status) ==
  LET q == [p EXCEPT !.statusCode = {status}, !.loading = FALSE, !.pc = "idle"]
  IN  IF ~Ok(status) THEN [q EXCEPT !.error = StatusMessage("Logout failed", status)]
      ELSE [q EXCEPT !.isAuthenticated = FALSE, !.me = {}, !.success = "Logged out"]

\* the form is on the page (lines 365, 372, 398)
FormShown == ~page.checkingSession /\ ~page.isAuthenticated

\* the two buttons are on the page (lines 365, 372)
ButtonsShown == ~page.checkingSession /\ page.isAuthenticated

\* lines 319-321: onMount calls fetchMe(true)
Mount ==
  /\ page.pc = "unmounted"
  /\ page' = [Begin(page) EXCEPT !.pc = "me.fetch", !.op = "mount"]
  /\ UNCHANGED serverVars

\* bind:value of the two inputs (lines 403, 414)
Type ==
  /\ FormShown
  /\ \E u \in Typed, w \in Typed : page' = [page EXCEPT !.username = u, !.password = w]
  /\ UNCHANGED serverVars

\* the form is submitted (lines 398, 425)
Submit ==
  /\ FormShown
  /\ ~(page.loading \/ page.username = "" \/ page.password = "")
  /\ page' = [Begin(page) EXCEPT !.pc = "login.fetch", !.op = "login",
                                 !.loginStatus = {}, !.body = {}]
  /\ UNCHANGED serverVars

\* Refresh profile is clicked (lines 385-386)
Refresh ==
  /\ ButtonsShown
  /\ ~page.loading
  /\ page' = [Begin(page) EXCEPT !.pc = "me.fetch", !.op = "refresh"]
  /\ UNCHANGED serverVars

\* Logout is clicked (lines 392-393)
ClickLogout ==
  /\ ButtonsShown
  /\ ~page.loading
  /\ page' = [Begin(page) EXCEPT !.pc = "logout.fetch", !.op = "logout"]
  /\ UNCHANGED serverVars

MeResolves ==
  /\ page.pc = "me.fetch"
  /\ \E status \in Statuses :
       page' = [fetchMeResponse(page, status) EXCEPT
                  !.lastMe = {status}, !.logoutSince = FALSE,
                  !.basis = IF status = 401 THEN FALSE ELSE @]
  /\ UNCHANGED serverVars

MeRejects ==
  /\ page.pc = "me.fetch"
  /\ page' = fetchMeRejected(page)
  /\ UNCHANGED serverVars

MeBodyRead ==
  /\ page.pc = "me.json"
  /\ \E body \in Bodies :
       page' = [fetchMeJson(page, body) EXCEPT
                  !.body = body, !.basis = IF body # {} THEN TRUE ELSE @]
  /\ UNCHANGED serverVars

LoginResolves ==
  /\ page.pc = "login.fetch"
  /\ \E status \in Statuses :
       page' = [loginResponse(page, status) EXCEPT !.loginStatus = {status}]
  /\ UNCHANGED serverVars

LoginRejects ==
  /\ page.pc = "login.fetch"
  /\ page' = fetchRejected(page)
  /\ UNCHANGED serverVars

LoginBodyRead ==
  /\ page.pc = "login.json"
  /\ \E body \in Bodies : page' = [loginJson(page, body) EXCEPT !.body = body]
  /\ UNCHANGED serverVars

LogoutResolves ==
  /\ page.pc = "logout.fetch"
  /\ \E status \in Statuses :
       page' = [logoutResponse(page, status) EXCEPT
                  !.logoutSince = IF Ok(status) THEN TRUE ELSE @,
                  !.basis = IF Ok(status) THEN FALSE ELSE @]
  /\ UNCHANGED serverVars

LogoutRejects ==
  /\ page.pc = "logout.fetch"
  /\ page' = fetchRejected(page)
  /\ UNCHANGED serverVars

\* every fetch and every read of a body resolves or rejects
Settles ==
  \/ MeResolves
  \/ MeRejects
  \/ MeBodyRead
  \/ LoginResolves
  \/ LoginRejects
  \/ LoginBodyRead
  \/ LogoutResolves
  \/ LogoutRejects

NextPage ==
  \/ Mount
  \/ Type
  \/ Submit
  \/ Refresh
  \/ ClickLogout
  \/ MeResolves
  \/ MeRejects
  \/ MeBodyRead
  \/ LoginResolves
  \/ LoginRejects
  \/ LoginBodyRead
  \/ LogoutResolves
  \/ LogoutRejects

SpecPage == InitRevoke /\ [][NextPage]_vars

\* a fetch that was started resolves or rejects in the end, and so does the
\* read of a body
SpecPageFair == SpecPage /\ WF_vars(Settles)

\* no operation starts while another runs
PageSerial == ~page.loading <=> page.pc \in {"idle", "unmounted"}

\* C17 as stated: isAuthenticated is true only if the most recent completed
\* /api/me request returned 200 and no successful logout completed since, and
\* whenever isAuthenticated is false me is null.
C17_Original ==
  /\ page.isAuthenticated => page.lastMe = {200} /\ ~page.logoutSince
  /\ ~page.isAuthenticated => page.me = {}

\* C17 amended: isAuthenticated is true exactly when some /api/me request
\* returned an OK status with a JSON body and, since the latest such response,
\* no /api/me request returned 401 and no logout returned OK; a later /api/me
\* response that is neither OK nor 401, or that fails, leaves it true. Whenever
\* isAuthenticated is false me is null.
C17_Amended ==
  /\ page.isAuthenticated <=> page.basis
  /\ ~page.isAuthenticated => page.me = {}

\* the page still shows the user as signed in after /api/me answered 500
C17_Witness ==
  /\ page.isAuthenticated /\ page.pc = "idle" /\ page.op = "refresh"
  /\ page.lastMe = {500} /\ page.me # {}

\* a step of login: its fetch settles or the body of its response is read
LoginStep == page.pc \in {"login.fetch", "login.json"} /\ page'.pc # page.pc

\* the login whose step it is got a response, and the response is OK
LoginOk == page'.loginStatus # {} /\ Ok(Value(page'.loginStatus))

\* the text the body holds in the field `name`, if it holds one
Field(body, name) ==
  IF body = {} \/ Value(body) = JsonNull THEN {} ELSE Value(body)[name] \ {""}

\* the messages the body holds in its error and message fields
ServerMessages(body) == {Message(m) : m \in Field(body, "error") \cup Field(body, "message")}

\* what is left of the page by a login that is not OK
LoginFrame ==
  /\ page'.isAuthenticated = page.isAuthenticated
  /\ page'.me = page.me
  /\ page'.password = page.password
  /\ page'.pc # "me.fetch"

\* C18 as stated: a login whose response is not OK leaves isAuthenticated, me
\* and the password unchanged, sends no /api/me request and sets error to the
\* server's error message; only a login whose response is OK clears the
\* password and then calls fetchMe.
C18_Original ==
  [][LoginStep =>
       IF LoginOk THEN page'.password = "" /\ page'.pc = "me.fetch"
       ELSE /\ LoginFrame
            /\ page'.pc = "idle" /\ page'.loginStatus # {}
                 => page'.error \in ServerMessages(page'.body)]_vars

\* C18 amended: a login whose response is not OK, or whose fetch fails, leaves
\* isAuthenticated, me and the password unchanged and sends no /api/me
\* request; it sets error to the message field of the JSON body if that is
\* there, else to its error field, else (no such field, or a body that is not
\* JSON) to "Login failed (<status>)", and to the failure's message when the
\* fetch fails. Only a login whose response is OK clears the password and
\* then calls fetchMe.
C18_Amended ==
  [][LoginStep =>
       IF LoginOk THEN page'.password = "" /\ page'.pc = "me.fetch"
       ELSE /\ LoginFrame
            /\ page'.pc = "idle" =>
                 LET message == Field(page'.body, "message")
                     error == Field(page'.body, "error")
                 IN  page'.error =
                       IF page'.loginStatus = {} THEN Message("Failed to fetch")
                       ELSE IF message # {} THEN Message(Value(message))
                       ELSE IF error # {} THEN Message(Value(error))
                       ELSE StatusMessage("Login failed", Value(page'.loginStatus))]_vars

\* a login answered 401 with a body that is not JSON has ended
C18_Witness ==
  /\ page.pc = "idle" /\ page.op = "login" /\ page.loginStatus = {401} /\ page.body = {}
  /\ page.error = StatusMessage("Login failed", 401)
  /\ page.password # "" /\ ~page.isAuthenticated

\* fetchMe, login or logout runs
Running == page.pc \notin {"idle", "unmounted"}

\* C19: when every fetch resolves or rejects in the end, each started
\* fetchMe, login and logout finishes with loading = false whatever the
\* response or failure, and after mount checkingSession becomes false in the
\* end and never becomes true again.
C19_OperationsFinish ==
  /\ Running ~> (~Running /\ ~page.loading)
  /\ (page.pc # "unmounted") ~> ~page.checkingSession
  /\ [][~page.checkingSession => ~page'.checkingSession]_vars

\* a login has run to its end through fetchMe, after the check of the session
\* at mount had ended on a failure
C19_Witness ==
  /\ ~Running /\ ~page.loading /\ ~page.checkingSession
  /\ page.op = "login" /\ page.loginStatus = {200} /\ page.lastMe = {500}
  /\ page.error = StatusMessage("Failed to fetch profile", 500)

====
